---- MODULE Spec2Model ----
(***************************************************************************)
(* Model of the AMD module loader bundled in src/unnamed/part_000 (line 1, *)
(* minified): PathResolver, EventEmitter, ConfigParser, DependencyBuilder, *)
(* URLBuilder and Loader.                                                  *)
(*                                                                         *)
(* Module names are sequences of "/"-separated segments: the name "a/b"    *)
(* is <<"a", "b">>.  JavaScript runs the loader on one thread: every       *)
(* action below is one synchronous run-to-completion step.                 *)
(***************************************************************************)
EXTENDS Integers, Sequences, FiniteSets, TLC

(***************************************************************************)
(* Bounds of the model.                                                    *)
(***************************************************************************)
MaxDeps == 2
MaxEdges == 3
MaxReq == 2
MaxRequests == 2
MaxDefines == 3
MaxPasses == 3
MaxBuild == 3
MaxNameLen == 4
MaxSegs == 3
MaxPromises == 4

(***************************************************************************)
(* Names.                                                                  *)
(***************************************************************************)
A == <<"a">>
B == <<"b">>
C == <<"c">>
EXPORTS == <<"exports">>
Names == {A, B, C}
NameOrder == <<A, B, C>>

NoErr == [kind |-> "none", name |-> <<>>]
TypeErr == [kind |-> "TypeError", name |-> <<>>]
CycleErr(n) == [kind |-> "cycle", name |-> n]

NoCond == [has |-> FALSE, trigger |-> <<>>, test |-> FALSE]
Cond(t, b) == [has |-> TRUE, trigger |-> t, test |-> b]

(***************************************************************************)
(* Generic helpers.                                                        *)
(***************************************************************************)
Range(s) == {s[i] : i \in 1..Len(s)}
Reverse(s) == [i \in 1..Len(s) |-> s[Len(s) + 1 - i]]
IndexOf(s, x) == IF x \in Range(s) THEN CHOOSE i \in 1..Len(s) : s[i] = x /\ \A j \in 1..(i - 1) : s[j] # x ELSE 0
Count(s, x) == Cardinality({i \in 1..Len(s) : s[i] = x})
NoDup(s) == \A i, j \in 1..Len(s) : i # j => s[i] # s[j]
SeqsUpTo(S, n) == UNION {[1..k -> S] : k \in 0..n}
RECURSIVE SumOver(_, _)
SumOver(f, S) == IF S = {} THEN 0 ELSE LET x == CHOOSE y \in S : TRUE IN f[x] + SumOver(f, S \ {x})

(***************************************************************************)
(* PathResolver.resolvePath(name, dependency).                             *)
(***************************************************************************)
\* variant: the ".." that finds the base empty is dropped
RECURSIVE resolveWalk_dropsPop(_, _, _)
resolveWalk_dropsPop(n, o, i) ==
  IF i > Len(o) THEN n
  ELSE IF o[i] = "." THEN resolveWalk_dropsPop(n, o, i + 1)
  ELSE IF o[i] = ".."
       THEN IF Len(n) = 0 THEN n \o SubSeq(o, i + 1, Len(o))
            ELSE resolveWalk_dropsPop(SubSeq(n, 1, Len(n) - 1), o, i + 1)
  ELSE resolveWalk_dropsPop(Append(n, o[i]), o, i + 1)

RECURSIVE resolveWalk(_, _, _)
resolveWalk(n, o, i) ==
  IF i > Len(o) THEN n
  ELSE IF o[i] = "." THEN resolveWalk(n, o, i + 1)
  ELSE IF o[i] = ".."
       THEN IF Len(n) = 0 THEN n \o SubSeq(o, i, Len(o))
            ELSE resolveWalk(SubSeq(n, 1, Len(n) - 1), o, i + 1)
  ELSE resolveWalk(Append(n, o[i]), o, i + 1)

\* variant: the last segment of the dependency is walked like a directory
resolvePath_lastIsDirectory(name, dep) ==
  IF dep = EXPORTS THEN dep
  ELSE resolveWalk(SubSeq(name, 1, Len(name) - 1), dep, 1)

resolvePath(name, dep) ==
  IF dep = EXPORTS THEN dep
  ELSE LET n == SubSeq(name, 1, Len(name) - 1)
           o == SubSeq(dep, 1, Len(dep) - 1)
           r == dep[Len(dep)]
       IN Append(resolveWalk(n, o, 1), r)

(***************************************************************************)
(* Descriptors and the ConfigParser registry.                              *)
(***************************************************************************)
Absent == [present |-> FALSE, dependencies |-> <<>>, condition |-> NoCond,
           mark |-> FALSE, tmpMark |-> FALSE, conditionalMark |-> FALSE,
           load |-> FALSE, implementation |-> 0]

Descriptor(deps, cond) == [Absent EXCEPT !.present = TRUE, !.dependencies = deps, !.condition = cond]

ConfigParser_resolvePath(name, d) == [d EXCEPT !.dependencies = [i \in 1..Len(d.dependencies) |-> resolvePath(name, d.dependencies[i])]]

_registerConditionalModule(cm, name, d) ==
  IF d.condition.has
  THEN [cm EXCEPT ![d.condition.trigger] = Append(@, name)]
  ELSE cm

\* cp is the parser state [modules, conditionalModules]
addModule(cp, name, d) ==
  [modules |-> [cp.modules EXCEPT ![name] = ConfigParser_resolvePath(name, d)],
   conditionalModules |-> _registerConditionalModule(cp.conditionalModules, name, d)]

EmptyParser == [modules |-> [n \in Names |-> Absent], conditionalModules |-> [n \in Names |-> <<>>]]

RECURSIVE _parseModules(_, _, _)
_parseModules(cp, raw, i) ==
  IF i > Len(NameOrder) THEN cp
  ELSE LET n == NameOrder[i]
       IN IF raw[n].present THEN _parseModules(addModule(cp, n, raw[n]), raw, i + 1)
          ELSE _parseModules(cp, raw, i + 1)

(***************************************************************************)
(* DependencyBuilder.  A pass works on st = [mods, cm, queue, result,      *)
(* thrown, err]: the registry descriptors, the conditional index, the      *)
(* builder's _queue and _result, and the exception in flight, if any.      *)
(***************************************************************************)
Throw(st, e) == [st EXCEPT !.thrown = TRUE, !.err = e]

_testConditionalModule(test) == test

\* r.condition.test is read only when r is not in the queue; a descriptor
\* that define has replaced carries no condition, and reading .test of it
\* throws a TypeError.
RECURSIVE condLoop(_, _, _)
condLoop(st, t, o) ==
  IF st.thrown \/ o > Len(t) THEN st
  ELSE LET r == t[o]
       IN IF IndexOf(st.queue, r) # 0 THEN condLoop(st, t, o + 1)
          ELSE IF ~st.mods[r].condition.has THEN Throw(st, TypeErr)
          ELSE IF _testConditionalModule(st.mods[r].condition.test)
          THEN condLoop([st EXCEPT !.queue = Append(@, r)], t, o + 1)
          ELSE condLoop(st, t, o + 1)

\* variant: the guard on conditionalMark is inverted
_processConditionalModules_invertedGuard(st, e) ==
  LET t == st.cm[e]
  IN IF Len(t) > 0 /\ st.mods[e].conditionalMark
     THEN LET s1 == condLoop(st, t, 1)
          IN IF s1.thrown THEN s1 ELSE [s1 EXCEPT !.mods[e].conditionalMark = TRUE]
     ELSE st

_processConditionalModules(st, e) ==
  LET t == st.cm[e]
  IN IF Len(t) > 0 /\ ~st.mods[e].conditionalMark
     THEN LET s1 == condLoop(st, t, 1)
          IN IF s1.thrown THEN s1 ELSE [s1 EXCEPT !.mods[e].conditionalMark = TRUE]
     ELSE st

RECURSIVE _visit(_, _)
RECURSIVE visitDeps(_, _, _)
visitDeps(st, e, n) ==
  IF st.thrown \/ n > Len(st.mods[e].dependencies) THEN st
  ELSE LET o == st.mods[e].dependencies[n]
       IN IF o = EXPORTS THEN visitDeps(st, e, n + 1)
          ELSE visitDeps(_visit(st, o), e, n + 1)

\* variant: the name is pushed to the end of _result instead of unshifted
_visit_push(st, e) ==
  IF e \notin Names \/ ~st.mods[e].present THEN Throw(st, TypeErr)
  ELSE IF st.mods[e].tmpMark THEN Throw(st, CycleErr(e))
  ELSE LET s1 == _processConditionalModules(st, e)
       IN IF s1.thrown \/ s1.mods[e].mark THEN s1
          ELSE LET s2 == visitDeps([s1 EXCEPT !.mods[e].tmpMark = TRUE], e, 1)
               IN IF s2.thrown THEN s2
                  ELSE [s2 EXCEPT !.mods[e].mark = TRUE, !.mods[e].tmpMark = FALSE,
                                  !.result = @ \o <<e>>]

\* variant: the permanent mark is not consulted
_visit_noMark(st, e) ==
  IF e \notin Names \/ ~st.mods[e].present THEN Throw(st, TypeErr)
  ELSE IF st.mods[e].tmpMark THEN Throw(st, CycleErr(e))
  ELSE LET s1 == _processConditionalModules(st, e)
       IN LET s2 == IF s1.thrown THEN s1 ELSE visitDeps([s1 EXCEPT !.mods[e].tmpMark = TRUE], e, 1)
          IN IF s2.thrown THEN s2
             ELSE [s2 EXCEPT !.mods[e].mark = TRUE, !.mods[e].tmpMark = FALSE,
                             !.result = <<e>> \o @]

_visit(st, e) ==
  IF e \notin Names \/ ~st.mods[e].present THEN Throw(st, TypeErr)
  ELSE IF st.mods[e].tmpMark THEN Throw(st, CycleErr(e))
  ELSE LET s1 == _processConditionalModules(st, e)
       IN IF s1.thrown \/ s1.mods[e].mark THEN s1
          ELSE LET s2 == visitDeps([s1 EXCEPT !.mods[e].tmpMark = TRUE], e, 1)
               IN IF s2.thrown THEN s2
                  ELSE [s2 EXCEPT !.mods[e].mark = TRUE, !.mods[e].tmpMark = FALSE,
                                  !.result = <<e>> \o @]

RECURSIVE _resolveDependencies(_, _)
_resolveDependencies(st, t) ==
  IF st.thrown \/ t > Len(st.queue) THEN st
  ELSE LET n == st.queue[t]
       IN IF n \notin Names \/ ~st.mods[n].present THEN Throw(st, TypeErr)
          ELSE IF st.mods[n].mark THEN _resolveDependencies(st, t + 1)
          ELSE _resolveDependencies(_visit(st, n), t + 1)

\* variant: mark is not reset
_cleanup_keepsMark(st) ==
  [st EXCEPT !.mods = [n \in Names |->
                         IF st.mods[n].present
                         THEN [st.mods[n] EXCEPT !.conditionalMark = FALSE, !.tmpMark = FALSE]
                         ELSE st.mods[n]],
             !.queue = <<>>, !.result = <<>>]

\* variant: load is reset with the marks
_cleanup_clearsLoad(st) ==
  [st EXCEPT !.mods = [n \in Names |->
                         IF st.mods[n].present
                         THEN [st.mods[n] EXCEPT !.conditionalMark = FALSE, !.mark = FALSE,
                                                 !.tmpMark = FALSE, !.load = FALSE]
                         ELSE st.mods[n]],
             !.queue = <<>>, !.result = <<>>]

\* variant: tmpMark is not reset
_cleanup_keepsTmpMark(st) ==
  [st EXCEPT !.mods = [n \in Names |->
                         IF st.mods[n].present
                         THEN [st.mods[n] EXCEPT !.conditionalMark = FALSE, !.mark = FALSE]
                         ELSE st.mods[n]],
             !.queue = <<>>, !.result = <<>>]

_cleanup(st) ==
  [st EXCEPT !.mods = [n \in Names |->
                         IF st.mods[n].present
                         THEN [st.mods[n] EXCEPT !.conditionalMark = FALSE, !.mark = FALSE, !.tmpMark = FALSE]
                         ELSE st.mods[n]],
             !.queue = <<>>, !.result = <<>>]

\* variant: what the pass threw is swallowed and the names visited so far
\* are returned
resolveDependencies_returnsPartial(mods, cm, result, req) ==
  LET st0 == [mods |-> mods, cm |-> cm, queue |-> req, result |-> result,
              thrown |-> FALSE, err |-> NoErr]
      st1 == _resolveDependencies(st0, 1)
      st2 == _cleanup(st1)
  IN [mods |-> st2.mods, queue |-> st2.queue, result |-> st2.result,
      thrown |-> FALSE, err |-> NoErr, out |-> Reverse(st1.result)]

\* The pass: returns the builder state after the finally block, and in out
\* the returned list (when nothing was thrown).
resolveDependencies(mods, cm, result, req) ==
  LET st0 == [mods |-> mods, cm |-> cm, queue |-> req, result |-> result,
              thrown |-> FALSE, err |-> NoErr]
      st1 == _resolveDependencies(st0, 1)
      t == IF st1.thrown THEN <<>> ELSE Reverse(st1.result)
      st2 == _cleanup(st1)
  IN [mods |-> st2.mods, queue |-> st2.queue, result |-> st2.result,
      thrown |-> st1.thrown, err |-> st1.err, out |-> t]

(***************************************************************************)
(* Loader._resolveDependencies: the requested names that are registry keys *)
(* are handed to the builder.                                              *)
(***************************************************************************)
\* variant: every requested name is handed to the builder
filterRegistered_keepsAll(mods, e) == e

filterRegistered(mods, e) == SelectSeq(e, LAMBDA n : n \in Names /\ mods[n].present)

(***************************************************************************)
(* State.                                                                  *)
(***************************************************************************)
VARIABLES
  modules,             \* ConfigParser._modules: name -> descriptor
  conditionalModules,  \* ConfigParser._conditionalModules: trigger -> names
  dbQueue,             \* DependencyBuilder._queue
  dbResult,            \* DependencyBuilder._result
  pass,                \* the last resolveDependencies call and its outcome
  combine,             \* ConfigParser._config.combine
  source,              \* the code behind each module URL: its define call
  requests,            \* the Loader.require calls and their promise chains
  scripts,             \* the script elements created by Loader._loadScript
  listeners,           \* EventEmitter._events.moduleRegister
  jobs,                \* the promise job queue
  draining,            \* the current task has ended: the job queue runs until empty
  fetched,             \* times each name was handed to URLBuilder.build
  defines,             \* the Loader.define calls made by page code and their outcome
  call,                \* a call of PathResolver or URLBuilder: arguments and result
  polyfill             \* the promises of the Promise polyfill and its asap queue

vars == <<modules, conditionalModules, dbQueue, dbResult, pass, combine, source,
          requests, scripts, listeners, jobs, draining, fetched, defines, call, polyfill>>
loaderVars == <<combine, source, requests, scripts, listeners, jobs, draining, fetched,
                defines, call, polyfill>>

ReqIds == 1..MaxRequests

NoRequest == [st |-> "idle", names |-> <<>>, list |-> <<>>, viaScripts |-> FALSE,
              pendingScripts |-> 0, sRejected |-> FALSE, nWait |-> 0, nNoImpl |-> 0,
              waitDone |-> 0,
              wRejected |-> FALSE, args |-> <<>>, listImpl |-> <<>>, err |-> NoErr,
              thrown |-> FALSE, resErr |-> NoErr,
              succ |-> 0, fail |-> 0]
NoCall == [op |-> "none"]
NoPolyfill == [ps |-> <<>>, k |-> <<>>, scheduled |-> FALSE, log |-> <<>>, ctx |-> "none"]
NoSource == [n \in Names |-> [deps |-> <<>>, void |-> FALSE]]

LoaderIdle ==
  /\ combine = FALSE
  /\ source = NoSource
  /\ requests = [r \in ReqIds |-> NoRequest]
  /\ scripts = <<>>
  /\ listeners = <<>>
  /\ jobs = <<>>
  /\ draining = FALSE
  /\ fetched = [n \in Names |-> 0]
  /\ defines = <<>>
  /\ call = NoCall
  /\ polyfill = NoPolyfill

NoPass == [n |-> 0, names |-> <<>>, req |-> <<>>, thrown |-> FALSE, err |-> NoErr, out |-> <<>>,
           pre |-> [n \in Names |-> Absent], preCm |-> [n \in Names |-> <<>>],
           again |-> FALSE, cycleBefore |-> FALSE]

(***************************************************************************)
(* Specification of the dependency builder over a family of registries.    *)
(***************************************************************************)
DepLists == {s \in SeqsUpTo(Names \cup {EXPORTS}, MaxDeps) : NoDup(s)}
CondChoices(n) == IF n = A THEN {NoCond} ELSE {NoCond, Cond(A, FALSE)} \cup {Cond(t, TRUE) : t \in Names}
RawConfigs ==
  {raw \in [Names -> {Absent} \cup {Descriptor(d, NoCond) : d \in DepLists}] :
     /\ raw[A].present /\ raw[B].present
     /\ SumOver([n \in Names |-> Len(raw[n].dependencies)], Names) <= MaxEdges}
Requests == SeqsUpTo(Names, MaxReq)

DBInit ==
  /\ \E raw \in RawConfigs : \E cb \in CondChoices(B) : \E cc \in CondChoices(C) :
       LET raw2 == [raw EXCEPT ![B].condition = cb,
                               ![C].condition = IF raw[C].present THEN cc ELSE NoCond]
           cp == _parseModules(EmptyParser, raw2, 1)
       IN /\ modules = cp.modules
          /\ conditionalModules = cp.conditionalModules
  /\ dbQueue = <<>>
  /\ dbResult = <<>>
  /\ pass = NoPass
  /\ LoaderIdle

\* The loader hands the builder the requested names that are registry keys.
DBResolve(names) ==
  /\ pass.n = 0
  /\ LET req == filterRegistered(modules, names)
         r == resolveDependencies(modules, conditionalModules, dbResult, req)
     IN /\ modules' = r.mods
        /\ dbQueue' = r.queue
        /\ dbResult' = r.result
        /\ pass' = [n |-> 1, names |-> names, req |-> req, thrown |-> r.thrown, err |-> r.err, out |-> r.out,
                    pre |-> modules, preCm |-> conditionalModules,
                    again |-> FALSE, cycleBefore |-> FALSE]
        /\ UNCHANGED <<conditionalModules, loaderVars>>

DBNext == \E req \in Requests : DBResolve(req)

DBSpec == DBInit /\ [][DBNext]_vars

(***************************************************************************)
(* Specification of repeated calls of one dependency builder: after a      *)
(* first call, a call with another list when the first threw, and calls    *)
(* with the list of the call before.                                       *)
(***************************************************************************)
RepeatInit ==
  /\ \E raw \in RawConfigs : \E cb \in {NoCond, Cond(A, TRUE)} :
       LET raw2 == [raw EXCEPT ![B].condition = cb]
           cp == _parseModules(EmptyParser, raw2, 1)
       IN /\ modules = cp.modules
          /\ conditionalModules = cp.conditionalModules
  /\ dbQueue = <<>>
  /\ dbResult = <<>>
  /\ pass = NoPass
  /\ LoaderIdle

\* a call with a list of its own after a call that threw
DBResolveNext(names) ==
  /\ pass.n = 1 /\ pass.thrown
  /\ LET req == filterRegistered(modules, names)
         r == resolveDependencies(modules, conditionalModules, dbResult, req)
     IN /\ modules' = r.mods
        /\ dbQueue' = r.queue
        /\ dbResult' = r.result
        /\ pass' = [n |-> pass.n + 1, names |-> names, req |-> req, thrown |-> r.thrown,
                    err |-> r.err, out |-> r.out,
                    pre |-> modules, preCm |-> conditionalModules,
                    again |-> FALSE, cycleBefore |-> pass.err.kind = "cycle"]
        /\ UNCHANGED <<conditionalModules, loaderVars>>

\* a call with the list of the call before
DBResolveAgain ==
  /\ pass.n >= 1 /\ pass.n < MaxPasses
  /\ LET r == resolveDependencies(modules, conditionalModules, dbResult, pass.req)
     IN /\ modules' = r.mods
        /\ dbQueue' = r.queue
        /\ dbResult' = r.result
        /\ pass' = [n |-> pass.n + 1, names |-> pass.names, req |-> pass.req,
                    thrown |-> r.thrown, err |-> r.err, out |-> r.out,
                    pre |-> modules, preCm |-> conditionalModules,
                    again |-> TRUE, cycleBefore |-> pass.cycleBefore \/ pass.err.kind = "cycle"]
        /\ UNCHANGED <<conditionalModules, loaderVars>>

RepeatNext ==
  \/ \E req \in Requests : DBResolve(req)
  \/ \E req \in Requests : DBResolveNext(req)
  \/ DBResolveAgain

RepeatSpec == RepeatInit /\ [][RepeatNext]_vars

(***************************************************************************)
(* URLBuilder.build: one URL per module, or one combined URL; every module *)
(* it is given gets load = true.  A URL is the list of the modules whose   *)
(* code it fetches.                                                        *)
(***************************************************************************)
build(mods, comb, e) ==
  [urls |-> IF comb THEN (IF Len(e) > 0 THEN <<e>> ELSE <<>>)
            ELSE [s \in 1..Len(e) |-> <<e[s]>>],
   mods |-> [n \in Names |-> IF n \in Range(e) THEN [mods[n] EXCEPT !.load = TRUE] ELSE mods[n]]]

(***************************************************************************)
(* Loader: pure parts.                                                     *)
(***************************************************************************)
Registered(mods, n) == n \in Names /\ mods[n].present
Implemented(mods, n) == Registered(mods, n) /\ mods[n].implementation # 0
ImplOf(n) == IndexOf(NameOrder, n)

_filterModulesNoImpl(mods, e) == SelectSeq(e, LAMBDA n : ~Implemented(mods, n))

_filterNotLoadedModules(mods, e) ==
  SelectSeq(e, LAMBDA n : ~(Registered(mods, n) /\ (mods[n].implementation # 0 \/ mods[n].load)))

\* variant: the implementations in reverse order
_addModuleImplementations_reversed(mods, e) ==
  [o \in 1..Len(e) |->
     IF Registered(mods, e[Len(e) + 1 - o]) THEN mods[e[Len(e) + 1 - o]].implementation ELSE 0]

_addModuleImplementations(mods, e) ==
  [o \in 1..Len(e) |-> IF Registered(mods, e[o]) THEN mods[e[o]].implementation ELSE 0]

\* "true", "false", or "throw" (a dependency that is not a registry key)
RECURSIVE _checkModuleDependencies(_, _, _)
_checkModuleDependencies(mods, o, r) ==
  IF r > Len(o) THEN "true"
  ELSE IF o[r] = EXPORTS THEN _checkModuleDependencies(mods, o, r + 1)
  ELSE IF ~Registered(mods, o[r]) THEN "throw"
  ELSE IF mods[o[r]].implementation = 0 THEN "false"
  ELSE _checkModuleDependencies(mods, o, r + 1)

(***************************************************************************)
(* Jobs of the promise job queue and listeners of "moduleRegister".        *)
(* A job with hops = k runs after k turns of the queue: k - 1 promise      *)
(* reactions that only pass a settlement on stand before it.               *)
(***************************************************************************)
NoDesc == [name |-> <<>>, deps |-> <<>>, cond |-> NoCond, void |-> FALSE]
Desc(n, d, c, v) == [name |-> n, deps |-> d, cond |-> c, void |-> v]
Job(k, h, r, i, d, e) == [k |-> k, hops |-> h, r |-> r, i |-> i, d |-> d, err |-> e]
ReqListener(r, i, n, deps) == [k |-> "req", r |-> r, i |-> i, d |-> Desc(n, deps, NoCond, FALSE)]
DefListener(d) == [k |-> "def", r |-> 0, i |-> 0, d |-> d]

\* hops from a settled step to the callback of require
HopsResolveFail == 2
HopsLoad == 1
HopsScriptElem == 1
HopsWait == 1
HopsScriptFail == 5
HopsDoneNoWait == 3
HopsDoneNoWaitScripts == 5
HopsDoneWaited == 4
HopsDoneWaitedScripts == 5
HopsRegister == 1

(***************************************************************************)
(* EventEmitter.  w = [mods, cm, listeners, jobs, thrown].                 *)
(***************************************************************************)
on(ls, l) == Append(ls, l)

off(ls, l) ==
  LET o == IndexOf(ls, l)
  IN IF o > 0 THEN SubSeq(ls, 1, o - 1) \o SubSeq(ls, o + 1, Len(ls))
     ELSE ls

\* variant: the listener stays subscribed when its waiter is satisfied
listenerCall_keepsListener(w, l) ==
  LET r == _checkModuleDependencies(w.mods, l.d.deps, 1)
  IN IF r = "throw" THEN [w EXCEPT !.thrown = TRUE]
     ELSE IF r = "true"
     THEN [w EXCEPT !.jobs = Append(@, IF l.k = "req"
                                       THEN Job("welem", 1, l.r, l.i, NoDesc, NoErr)
                                       ELSE Job("reg", HopsRegister, 0, 0, l.d, NoErr))]
     ELSE w

\* the listener that _waitForImplementation subscribes
listenerCall(w, l) ==
  LET r == _checkModuleDependencies(w.mods, l.d.deps, 1)
  IN IF r = "throw" THEN [w EXCEPT !.thrown = TRUE]
     ELSE IF r = "true"
     THEN [w EXCEPT !.listeners = off(@, l),
                    !.jobs = Append(@, IF l.k = "req"
                                       THEN Job("welem", 1, l.r, l.i, NoDesc, NoErr)
                                       ELSE Job("reg", HopsRegister, 0, 0, l.d, NoErr))]
     ELSE w

RECURSIVE emitLoop(_, _, _)
emitLoop(w, n, o) ==
  IF w.thrown \/ o > Len(n) THEN w
  ELSE emitLoop(listenerCall(w, n[o]), n, o + 1)

emit(w) == emitLoop([w EXCEPT !.emits = @ + 1], w.listeners, 1)

(***************************************************************************)
(* Loader._registerModule and Loader.define.                               *)
(***************************************************************************)
_registerModule(w, d) ==
  LET c == IF d.void THEN 0 ELSE ImplOf(d.name)
      t == IF EXPORTS \in Range(d.deps) THEN ImplOf(d.name) ELSE 0
      e == [Descriptor(d.deps, d.cond) EXCEPT !.implementation = IF c # 0 THEN c ELSE t]
      cp == addModule([modules |-> w.mods, conditionalModules |-> w.cm], d.name, e)
  IN emit([w EXCEPT !.mods = cp.modules, !.cm = cp.conditionalModules])

_waitForImplementation(w, l) == [w EXCEPT !.listeners = on(@, l)]

DepErr(n) == [kind |-> "dependency", name |-> n]

\* the dependency that _checkModuleDependencies names when it throws
RECURSIVE notRegistered(_, _, _)
notRegistered(mods, o, r) ==
  IF r > Len(o) THEN <<>>
  ELSE IF o[r] # EXPORTS /\ ~Registered(mods, o[r]) THEN o[r]
  ELSE notRegistered(mods, o, r + 1)

\* variant: the registration is left to the listener also when every
\* dependency is implemented
defineExecutor_alwaysDefers(w, d0) ==
  LET s == [d0 EXCEPT !.deps = [i \in 1..Len(d0.deps) |-> resolvePath(d0.name, d0.deps[i])]]
      u == _checkModuleDependencies(w.mods, s.deps, 1)
  IN IF u = "throw"
     THEN [w |-> w, d |-> s, u |-> u, settled |-> "rejected",
           err |-> DepErr(notRegistered(w.mods, s.deps, 1)), factory |-> 0]
     ELSE [w |-> _waitForImplementation(w, DefListener(s)), d |-> s, u |-> u,
           settled |-> "pending", err |-> NoErr, factory |-> 0]

\* the executor of the promise that define returns: what it throws rejects
\* that promise and goes no further; the resolve function is called on the
\* immediate path only
defineExecutor(w, d0) ==
  LET s == [d0 EXCEPT !.deps = [i \in 1..Len(d0.deps) |-> resolvePath(d0.name, d0.deps[i])]]
      u == _checkModuleDependencies(w.mods, s.deps, 1)
  IN IF u = "throw"
     THEN [w |-> w, d |-> s, u |-> u, settled |-> "rejected",
           err |-> DepErr(notRegistered(w.mods, s.deps, 1)), factory |-> 0]
     ELSE IF u = "true"
     THEN LET x == _registerModule(w, s)
          IN [w |-> [x EXCEPT !.thrown = FALSE], d |-> s, u |-> u,
              settled |-> IF x.thrown THEN "rejected" ELSE "fulfilled",
              err |-> IF x.thrown THEN DepErr(<<>>) ELSE NoErr, factory |-> 1]
     ELSE [w |-> _waitForImplementation(w, DefListener(s)), d |-> s, u |-> u,
           settled |-> "pending", err |-> NoErr, factory |-> 0]

define(w, d0) == defineExecutor(w, d0).w

RECURSIVE runScript(_, _, _, _)
runScript(w, src, ms, i) ==
  IF i > Len(ms) THEN w
  ELSE runScript(define(w, Desc(ms[i], src[ms[i]].deps, NoCond, src[ms[i]].void)), src, ms, i + 1)

(***************************************************************************)
(* Loader._waitForImplementations: the executor.  The loop runs over the   *)
(* length of the whole list e but indexes the filtered list o.             *)
(***************************************************************************)
_waitForImplementations(w, r, e, doneHops) ==
  LET o == _filterModulesNoImpl(w.mods, e)
      desc(s) == IF s <= Len(o) /\ Registered(w.mods, o[s]) THEN "waiter" ELSE "undefined"
      news == [s \in 1..Len(e) |->
                 IF desc(s) = "waiter"
                 THEN ReqListener(r, s, o[s], w.mods[o[s]].dependencies)
                 ELSE ReqListener(0, 0, <<>>, <<>>)]
      subscribed == SelectSeq(news, LAMBDA l : l.r # 0)
      rejected == \E s \in 1..Len(e) : desc(s) = "undefined"
  IN IF Len(o) = 0
     THEN [w |-> [w EXCEPT !.jobs = Append(@, Job("succ", doneHops, r, 0, NoDesc, NoErr))],
           nWait |-> 0, nNoImpl |-> 0]
     ELSE [w |-> [w EXCEPT !.listeners = @ \o subscribed,
                           !.jobs = IF rejected THEN Append(@, Job("wrej", 1, r, 0, NoDesc, NoErr)) ELSE @],
           nWait |-> Len(e), nNoImpl |-> Len(o)]

(***************************************************************************)
(* Specification of the Loader: require calls, script loads and errors,    *)
(* and the promise job queue.                                              *)
(***************************************************************************)
World == [mods |-> modules, cm |-> conditionalModules, listeners |-> listeners,
          jobs |-> jobs, thrown |-> FALSE, emits |-> 0]
Head1 == Head(jobs)
Rest == Tail(jobs)
RestWorld == [World EXCEPT !.jobs = Rest]
Drain(js) == draining' = (js # <<>>)
ErrScript(i) == [kind |-> "script", name |-> <<i>>]

LoaderConfigs ==
  {raw \in RawConfigs :
     /\ raw[A].dependencies \in {<<>>, <<B>>, <<C>>}
     /\ raw[B].dependencies \in {<<>>, <<A>>}
     /\ ~raw[C].present}
LoaderRequests == {s \in SeqsUpTo(Names, MaxReq) : Len(s) > 0 /\ NoDup(s)}

LoaderInit ==
  /\ \E raw \in LoaderConfigs : \E v \in BOOLEAN :
       LET cp == _parseModules(EmptyParser, raw, 1)
       IN /\ modules = cp.modules
          /\ conditionalModules = cp.conditionalModules
          /\ source = [n \in Names |-> [deps |-> cp.modules[n].dependencies,
                                       void |-> v /\ n = B]]
  /\ combine \in BOOLEAN
  /\ dbQueue = <<>>
  /\ dbResult = <<>>
  /\ pass = NoPass
  /\ requests = [r \in ReqIds |-> NoRequest]
  /\ scripts = <<>>
  /\ listeners = <<>>
  /\ jobs = <<>>
  /\ draining = FALSE
  /\ fetched = [n \in Names |-> 0]
  /\ defines = <<>>
  /\ call = NoCall
  /\ polyfill = NoPolyfill

\* variant: what the builder threw is dropped and the promise fulfilled
_resolveDependenciesJob_dropsThrow(r, u) == Job("load", HopsLoad, r, 0, NoDesc, NoErr)

\* Loader._resolveDependencies: the promise is fulfilled with the list or
\* rejected with what the builder threw
_resolveDependenciesJob(r, u) ==
  IF u.thrown THEN Job("fail", HopsResolveFail, r, 0, NoDesc, u.err)
  ELSE Job("load", HopsLoad, r, 0, NoDesc, NoErr)

\* Loader.require(names, onSuccess, onFailure), up to the end of the call
Require(r, names) ==
  /\ ~draining
  /\ requests[r].st = "idle"
  /\ \A q \in ReqIds : q < r => requests[q].st # "idle"
  /\ LET i == filterRegistered(modules, names)
         u == resolveDependencies(modules, conditionalModules, dbResult, i)
     IN /\ modules' = u.mods
        /\ dbQueue' = u.queue
        /\ dbResult' = u.result
        /\ requests' = [requests EXCEPT ![r].st = "pending", ![r].names = names,
                                        ![r].list = u.out, ![r].thrown = u.thrown,
                                        ![r].resErr = u.err]
        /\ jobs' = Append(jobs, _resolveDependenciesJob(r, u))
  /\ UNCHANGED <<polyfill, defines, call, conditionalModules, pass, combine, source, scripts, listeners, draining, fetched>>

\* a promise reaction that only passes a settlement on; when the job is alone
\* in the queue nothing can run between its hops, and they are not counted
Hop ==
  /\ Len(jobs) > 1 /\ Head1.hops > 1
  /\ jobs' = Append(Rest, [Head1 EXCEPT !.hops = @ - 1])
  /\ draining' = TRUE
  /\ UNCHANGED <<polyfill, defines, call, modules, conditionalModules, dbQueue, dbResult, pass, combine, source,
                 requests, scripts, listeners, fetched>>

Runs(k) == jobs # <<>> /\ Head1.k = k /\ (Head1.hops = 1 \/ Len(jobs) = 1)

\* Loader._loadModules(e): the executor
LoadModules ==
  /\ Runs("load")
  /\ LET r == Head1.r
         e == requests[r].list
         nl == _filterNotLoadedModules(modules, e)
     IN IF Len(nl) > 0
        THEN LET b == build(modules, combine, nl)
             IN /\ modules' = b.mods
                /\ fetched' = [n \in Names |-> fetched[n] + Count(nl, n)]
                /\ scripts' = scripts \o [u \in 1..Len(b.urls) |->
                                            [r |-> r, mods |-> b.urls[u], st |-> "loading"]]
                /\ requests' = [requests EXCEPT ![r].viaScripts = TRUE,
                                                ![r].pendingScripts = Len(b.urls)]
                /\ jobs' = Rest
                /\ UNCHANGED listeners
        ELSE LET x == _waitForImplementations(RestWorld, r, e, HopsDoneNoWait)
             IN /\ jobs' = x.w.jobs
                /\ listeners' = x.w.listeners
                /\ requests' = [requests EXCEPT ![r].nWait = x.nWait, ![r].nNoImpl = x.nNoImpl]
                /\ UNCHANGED <<modules, fetched, scripts>>
  /\ Drain(jobs')
  /\ UNCHANGED <<polyfill, defines, call, conditionalModules, dbQueue, dbResult, pass, combine, source>>

\* script.onload: the code of the script has run its define calls
ScriptLoad(i) ==
  /\ ~draining /\ jobs = <<>>
  /\ i \in 1..Len(scripts) /\ scripts[i].st = "loading"
  /\ LET w == runScript(World, source, scripts[i].mods, 1)
     IN /\ modules' = w.mods
        /\ conditionalModules' = w.cm
        /\ listeners' = w.listeners
        /\ jobs' = Append(w.jobs, Job("selem", HopsScriptElem, scripts[i].r, i, NoDesc, NoErr))
  /\ scripts' = [scripts EXCEPT ![i].st = "loaded"]
  /\ draining' = TRUE
  /\ UNCHANGED <<polyfill, defines, call, dbQueue, dbResult, pass, combine, source, requests, fetched>>

\* script.onerror: the element is removed and the promise rejected
ScriptError(i) ==
  /\ ~draining /\ jobs = <<>>
  /\ i \in 1..Len(scripts) /\ scripts[i].st = "loading"
  /\ scripts' = [scripts EXCEPT ![i].st = "removed"]
  /\ jobs' = Append(jobs, Job("srej", 1, scripts[i].r, i, NoDesc, ErrScript(i)))
  /\ draining' = TRUE
  /\ UNCHANGED <<polyfill, defines, call, modules, conditionalModules, dbQueue, dbResult, pass, combine, source,
                 requests, listeners, fetched>>

\* Promise.all(scripts): one script promise fulfilled
ScriptElem ==
  /\ Runs("selem")
  /\ LET r == Head1.r
         left == requests[r].pendingScripts - 1
     IN /\ requests' = [requests EXCEPT ![r].pendingScripts = left]
        /\ jobs' = IF left = 0 /\ ~requests[r].sRejected
                   THEN Append(Rest, Job("wait", HopsWait, r, 0, NoDesc, NoErr))
                   ELSE Rest
  /\ Drain(jobs')
  /\ UNCHANGED <<polyfill, defines, call, modules, conditionalModules, dbQueue, dbResult, pass, combine, source,
                 scripts, listeners, fetched>>

\* variant: every rejected script promise rejects the promise of the request
ScriptReject_everyRejection ==
  /\ Runs("srej")
  /\ LET r == Head1.r
     IN /\ requests' = [requests EXCEPT ![r].sRejected = TRUE]
        /\ jobs' = Append(Rest, Job("fail", HopsScriptFail, r, 0, NoDesc, Head1.err))
  /\ Drain(jobs')
  /\ UNCHANGED <<polyfill, defines, call, modules, conditionalModules, dbQueue, dbResult, pass, combine, source,
                 scripts, listeners, fetched>>

\* Promise.all(scripts): one script promise rejected
ScriptReject ==
  /\ Runs("srej")
  /\ LET r == Head1.r
     IN /\ requests' = [requests EXCEPT ![r].sRejected = TRUE]
        /\ jobs' = IF ~requests[r].sRejected
                   THEN Append(Rest, Job("fail", HopsScriptFail, r, 0, NoDesc, Head1.err))
                   ELSE Rest
  /\ Drain(jobs')
  /\ UNCHANGED <<polyfill, defines, call, modules, conditionalModules, dbQueue, dbResult, pass, combine, source,
                 scripts, listeners, fetched>>

\* Promise.all(scripts).then: Loader._waitForImplementations(e)
Wait ==
  /\ Runs("wait")
  /\ LET r == Head1.r
         x == _waitForImplementations(RestWorld, r, requests[r].list, HopsDoneNoWaitScripts)
     IN /\ jobs' = x.w.jobs
        /\ listeners' = x.w.listeners
        /\ requests' = [requests EXCEPT ![r].nWait = x.nWait, ![r].nNoImpl = x.nNoImpl]
  /\ Drain(jobs')
  /\ UNCHANGED <<polyfill, defines, call, modules, conditionalModules, dbQueue, dbResult, pass, combine, source,
                 scripts, fetched>>

\* Promise.all(waiters): one waiter fulfilled
WaitElem ==
  /\ Runs("welem")
  /\ LET r == Head1.r
         done == requests[r].waitDone + 1
     IN /\ requests' = [requests EXCEPT ![r].waitDone = done]
        /\ jobs' = IF done = requests[r].nWait /\ ~requests[r].wRejected
                   THEN Append(Rest, Job("succ", IF requests[r].viaScripts
                                                 THEN HopsDoneWaitedScripts
                                                 ELSE HopsDoneWaited, r, 0, NoDesc, NoErr))
                   ELSE Rest
  /\ Drain(jobs')
  /\ UNCHANGED <<polyfill, defines, call, modules, conditionalModules, dbQueue, dbResult, pass, combine, source,
                 scripts, listeners, fetched>>

\* Promise.all(waiters): a waiter was rejected; nothing handles the rejection
WaitReject ==
  /\ Runs("wrej")
  /\ requests' = [requests EXCEPT ![Head1.r].wRejected = TRUE]
  /\ jobs' = Rest
  /\ Drain(jobs')
  /\ UNCHANGED <<polyfill, defines, call, modules, conditionalModules, dbQueue, dbResult, pass, combine, source,
                 scripts, listeners, fetched>>

\* the fulfilment handler of require: onSuccess
Success ==
  /\ Runs("succ")
  /\ LET r == Head1.r
     IN requests' = [requests EXCEPT
          ![r].st = "success",
          ![r].succ = @ + 1,
          ![r].args = _addModuleImplementations(modules, requests[r].names),
          ![r].listImpl = [i \in 1..Len(requests[r].list) |->
                             IF Registered(modules, requests[r].list[i])
                             THEN modules[requests[r].list[i]].implementation ELSE 0]]
  /\ jobs' = Rest
  /\ Drain(jobs')
  /\ UNCHANGED <<polyfill, defines, call, modules, conditionalModules, dbQueue, dbResult, pass, combine, source,
                 scripts, listeners, fetched>>

\* the rejection handler of require: onFailure
Failure ==
  /\ Runs("fail")
  /\ requests' = [requests EXCEPT ![Head1.r].st = "failure", ![Head1.r].fail = @ + 1,
                                  ![Head1.r].err = Head1.err]
  /\ jobs' = Rest
  /\ Drain(jobs')
  /\ UNCHANGED <<polyfill, defines, call, modules, conditionalModules, dbQueue, dbResult, pass, combine, source,
                 scripts, listeners, fetched>>

\* define, deferred: _waitForImplementation(s).then(_registerModule)
Register ==
  /\ Runs("reg")
  /\ LET w == _registerModule(RestWorld, Head1.d)
     IN /\ modules' = w.mods
        /\ conditionalModules' = w.cm
        /\ listeners' = w.listeners
        /\ jobs' = w.jobs
  /\ Drain(jobs')
  /\ UNCHANGED <<dbQueue, dbResult, pass, combine, source, requests, scripts, fetched,
                 call, polyfill>>

LoaderNext ==
  \/ \E r \in ReqIds : \E names \in LoaderRequests : Require(r, names)
  \/ \E i \in 1..Len(scripts) : ScriptLoad(i)
  \/ \E i \in 1..Len(scripts) : ScriptError(i)
  \/ Hop
  \/ LoadModules
  \/ ScriptElem
  \/ ScriptReject
  \/ Wait
  \/ WaitElem
  \/ WaitReject
  \/ Success
  \/ Failure
  \/ Register /\ UNCHANGED defines

LoaderSpec == LoaderInit /\ [][LoaderNext]_vars

(***************************************************************************)
(* Specification of Loader.define called by page code: each task makes     *)
(* define calls, and the promise job queue runs the deferred registrations. *)
(***************************************************************************)
DefineNames == {A, B}
DefineDeps(n) == {d \in SeqsUpTo((Names \ {n}) \cup {EXPORTS}, MaxDeps) : NoDup(d)}

\* whether the factory returns nothing: tried for one of the names
DefineVoid(n) == IF n = B THEN BOOLEAN ELSE {FALSE}

DepsImplemented(mods, deps) ==
  \A i \in 1..Len(deps) : deps[i] # EXPORTS => Implemented(mods, deps[i])

DefineInit ==
  /\ \E raw \in RawConfigs :
       /\ raw[A].dependencies = <<>> /\ raw[B].dependencies = <<>> /\ ~raw[C].present
       /\ LET cp == _parseModules(EmptyParser, raw, 1)
          IN /\ modules = cp.modules
             /\ conditionalModules = cp.conditionalModules
  /\ dbQueue = <<>>
  /\ dbResult = <<>>
  /\ pass = NoPass
  /\ LoaderIdle

\* Loader.define(n, deps, factory, o), up to the end of the call; o gives
\* the condition of the descriptor, if any
Define(n, deps, void, o) ==
  /\ ~draining
  /\ Len(defines) < MaxDefines
  /\ LET x == defineExecutor(World, Desc(n, deps, o, void))
     IN /\ modules' = x.w.mods
        /\ conditionalModules' = x.w.cm
        /\ listeners' = x.w.listeners
        /\ jobs' = x.w.jobs
        /\ defines' = Append(defines,
             [d |-> x.d, u |-> x.u, settled |-> x.settled, err |-> x.err,
              factory |-> x.factory, emits |-> x.w.emits,
              depsImpl |-> x.factory = 1 => DepsImplemented(modules, x.d.deps)])
  /\ UNCHANGED <<dbQueue, dbResult, pass, combine, source, requests, scripts, draining,
                 fetched, call, polyfill>>

\* the define call whose deferred registration the job at the head carries
Deferred(d) ==
  CHOOSE k \in 1..Len(defines) :
    /\ defines[k].d = d /\ defines[k].u = "false" /\ defines[k].factory = 0
    /\ \A j \in 1..(k - 1) :
         ~(defines[j].d = d /\ defines[j].u = "false" /\ defines[j].factory = 0)

\* define, deferred: the registration runs as a job
DefRegister ==
  /\ Register
  /\ defines' = [defines EXCEPT ![Deferred(Head1.d)].factory = 1,
                                ![Deferred(Head1.d)].emits =
                                   _registerModule(RestWorld, Head1.d).emits,
                                ![Deferred(Head1.d)].depsImpl =
                                   DepsImplemented(modules, Head1.d.deps)]

DefineNext ==
  \/ \E n \in DefineNames : \E deps \in DefineDeps(n) : \E void \in DefineVoid(n) :
       Define(n, deps, void, NoCond)
  \/ DefRegister

DefineSpec == DefineInit /\ [][DefineNext]_vars

(***************************************************************************)
(* Specification of Loader.define called with a configuration object: the  *)
(* registry is parsed from a configuration with conditional modules, and   *)
(* page code declares modules with or without a condition.                 *)
(***************************************************************************)
CondDefineDeps(n) == {<<>>} \cup (IF n = A THEN {} ELSE {<<A>>})
\* the conditions tried: none, or one with the trigger a
CondDefineChoices(n) == CondChoices(n) \cap {NoCond, Cond(A, TRUE), Cond(A, FALSE)}

CondDefineInit ==
  /\ \E raw \in RawConfigs : \E cb \in CondDefineChoices(B) : \E cc \in CondDefineChoices(C) :
       /\ \A n \in Names : raw[n].dependencies = <<>>
       /\ LET raw2 == [raw EXCEPT ![B].condition = cb,
                                  ![C].condition = IF raw[C].present THEN cc ELSE NoCond]
              cp == _parseModules(EmptyParser, raw2, 1)
          IN /\ modules = cp.modules
             /\ conditionalModules = cp.conditionalModules
  /\ dbQueue = <<>>
  /\ dbResult = <<>>
  /\ pass = NoPass
  /\ LoaderIdle

CondDefineNext ==
  \/ \E n \in Names : \E deps \in CondDefineDeps(n) : \E o \in CondDefineChoices(n) :
       Define(n, deps, FALSE, o)
  \/ DefRegister

CondDefineSpec == CondDefineInit /\ [][CondDefineNext]_vars

(***************************************************************************)
(* URLBuilder over strings.  A string is the sequence of its characters;   *)
(* the empty sequence is the empty string and, like undefined, is falsy.   *)
(***************************************************************************)
JS == <<".", "j", "s">>

\* String.prototype.indexOf: the index from 0 of the first occurrence, or -1
indexOf(str, t) ==
  LET at == {i \in 0..(Len(str) - Len(t)) : SubSeq(str, i + 1, i + Len(t)) = t}
  IN IF at = {} THEN -1 ELSE CHOOSE i \in at : \A j \in at : i <= j

\* Array.prototype.join
RECURSIVE join(_, _)
join(t, sep) ==
  IF Len(t) = 0 THEN <<>>
  ELSE IF Len(t) = 1 THEN t[1]
  ELSE t[1] \o sep \o join(Tail(t), sep)

_getModulePath(e) ==
  IF e.path # <<>> THEN e.path
  ELSE IF indexOf(e.name, JS) # Len(e.name) - 3 THEN e.name \o JS
  ELSE e.name

\* the loop of URLBuilder.build: t the paths to combine, n the URLs
RECURSIVE buildLoop(_, _, _, _, _, _)
buildLoop(r, i, o, e, s, acc) ==
  IF s > Len(e) THEN acc
  ELSE LET u == o[e[s]]
       IN buildLoop(r, i, o, e, s + 1,
            [t |-> IF u.fullPath = <<>> /\ r.combine
                   THEN Append(acc.t, _getModulePath(u)) ELSE acc.t,
             n |-> IF u.fullPath # <<>> THEN Append(acc.n, u.fullPath)
                   ELSE IF r.combine THEN acc.n
                   ELSE Append(acc.n, r.url \o i \o _getModulePath(u)),
             load |-> acc.load \cup {e[s]}])

\* variant: one URL for each path to combine
URLBuilder_build_noBatch(r, o, e) ==
  LET i == IF r.basePath = <<>> \/ r.basePath[Len(r.basePath)] # "/"
           THEN r.basePath \o <<"/">> ELSE r.basePath
      x == buildLoop(r, i, o, e, 1, [t |-> <<>>, n |-> <<>>, load |-> {}])
  IN [urls |-> x.n \o [k \in 1..Len(x.t) |-> r.url \o <<"?">> \o i \o x.t[k]],
      load |-> x.load]

\* URLBuilder.build(e) with the config r and the registry o
URLBuilder_build(r, o, e) ==
  LET i == IF r.basePath = <<>> \/ r.basePath[Len(r.basePath)] # "/"
           THEN r.basePath \o <<"/">> ELSE r.basePath
      x == buildLoop(r, i, o, e, 1, [t |-> <<>>, n |-> <<>>, load |-> {}])
  IN [urls |-> IF Len(x.t) > 0
               THEN Append(x.n, r.url \o <<"?">> \o i \o join(x.t, <<"&">> \o i))
               ELSE x.n,
      load |-> x.load]

(***************************************************************************)
(* Loader._registerModule over values: what the factory is applied to and  *)
(* what becomes the implementation.  An object has an identity; written    *)
(* tells whether the factory has put a property on it.  The placeholder    *)
(* made for the position i of the dependency list has the identity i.      *)
(***************************************************************************)
Undefined == [kind |-> "undefined", id |-> 0, written |-> FALSE]
Falsy == [kind |-> "falsy", id |-> 0, written |-> FALSE]
Returned_value == [kind |-> "value", id |-> 0, written |-> FALSE]
ImplValue(n) == [kind |-> "implementation", id |-> ImplOf(n), written |-> FALSE]
Placeholder(i) == [kind |-> "exports", id |-> i, written |-> FALSE]
Truthy(v) == v.kind \notin {"undefined", "falsy"}

\* the list n that the loop of _registerModule builds, and the position of
\* the placeholder that t holds after the loop (0: t is undefined)
factoryArguments(r, deps) ==
  [i \in 1..Len(deps) |-> IF deps[i] = EXPORTS THEN Placeholder(i) ELSE r[deps[i]]]
lastExports(deps) ==
  LET ex == {i \in 1..Len(deps) : deps[i] = EXPORTS}
  IN IF ex = {} THEN 0 ELSE CHOOSE i \in ex : \A j \in ex : j <= i

\* variant: the placeholder wins over the value the factory returned
_registerModuleValues_exportsWins(r, deps, f) ==
  LET last == lastExports(deps)
      t == IF last = 0 THEN Undefined
           ELSE [Placeholder(last) EXCEPT !.written = last \in f.writes]
      c == f.ret
  IN [args |-> factoryArguments(r, deps),
      implementation |-> IF Truthy(t) THEN t ELSE c]

\* r: the implementations the registry holds; f: the factory, by the value
\* it returns and the argument positions it writes to
_registerModuleValues(r, deps, f) ==
  LET last == lastExports(deps)
      t == IF last = 0 THEN Undefined
           ELSE [Placeholder(last) EXCEPT !.written = last \in f.writes]
      c == f.ret
  IN [args |-> factoryArguments(r, deps),
      implementation |-> IF Truthy(c) THEN c ELSE t]

(***************************************************************************)
(* Specification of single calls of URLBuilder.build,                      *)
(* URLBuilder._getModulePath and PathResolver.resolvePath over families of *)
(* arguments.                                                              *)
(***************************************************************************)
M1 == <<"m", "1">>
M2 == <<"m", "2">>
M3 == <<"m", "3">>
BuildKeys == {M1, M2, M3}
BuildDescriptor(k, kind) ==
  [name |-> k,
   path |-> IF kind = "path" THEN <<"p">> \o Tail(k) ELSE <<>>,
   fullPath |-> IF kind = "fullPath" THEN <<"f">> \o Tail(k) ELSE <<>>]
BuildRegistries ==
  {[k \in BuildKeys |-> BuildDescriptor(k, kinds[k])] :
     kinds \in [BuildKeys -> {"plain", "path", "fullPath"}]}
BuildConfigs ==
  [url : {<<"u">>}, basePath : {<<>>, <<"b">>, <<"b", "/">>}, combine : BOOLEAN]
BuildCalls ==
  {[op |-> "build", r |-> r, o |-> o, e |-> e, done |-> FALSE,
    ret |-> [urls |-> <<>>, load |-> {}]] :
     r \in BuildConfigs, o \in BuildRegistries, e \in SeqsUpTo(BuildKeys, MaxBuild)}

NameChars == {"m", "1", ".", "j", "s"}
PathCalls ==
  {[op |-> "_getModulePath", e |-> [name |-> n, path |-> q, fullPath |-> <<>>],
    done |-> FALSE, ret |-> <<>>] :
     n \in SeqsUpTo(NameChars, MaxNameLen) \ {<<>>}, q \in {<<>>, <<"p">>}}

ResolveCalls ==
  {[op |-> "resolvePath", name |-> n, dep |-> d, done |-> FALSE, ret |-> <<>>] :
     n \in SeqsUpTo({"a", "b"}, MaxSegs) \ {<<>>},
     d \in (SeqsUpTo({".", "..", "x"}, MaxSegs) \ {<<>>}) \cup {EXPORTS}}

\* calls of _registerModule: dependency lists over two implemented modules
\* and "exports", factories that return nothing, a falsy value or a value
\* and write to some of the placeholders they get
RegistryValues == [n \in {A, B} |-> ImplValue(n)]
Factories(deps) ==
  [ret : {Undefined, Falsy, Returned_value},
   writes : SUBSET {i \in 1..Len(deps) : deps[i] = EXPORTS}]
RegisterCalls ==
  UNION {{[op |-> "_registerModule", deps |-> d, f |-> f, done |-> FALSE,
           ret |-> [args |-> <<>>, implementation |-> Undefined]] : f \in Factories(d)} :
           d \in SeqsUpTo({A, B, EXPORTS}, MaxDeps + 1)}

CallInit ==
  /\ modules = EmptyParser.modules
  /\ conditionalModules = EmptyParser.conditionalModules
  /\ dbQueue = <<>>
  /\ dbResult = <<>>
  /\ pass = NoPass
  /\ combine = FALSE
  /\ source = NoSource
  /\ requests = [r \in ReqIds |-> NoRequest]
  /\ scripts = <<>>
  /\ listeners = <<>>
  /\ jobs = <<>>
  /\ draining = FALSE
  /\ fetched = [n \in Names |-> 0]
  /\ defines = <<>>
  /\ polyfill = NoPolyfill
  /\ call \in BuildCalls \cup PathCalls \cup ResolveCalls \cup RegisterCalls

Build ==
  /\ call.op = "build" /\ ~call.done
  /\ call' = [call EXCEPT !.done = TRUE,
                          !.ret = URLBuilder_build(call.r, call.o, call.e)]
  /\ UNCHANGED <<modules, conditionalModules, dbQueue, dbResult, pass, combine, source,
                 requests, scripts, listeners, jobs, draining, fetched, defines, polyfill>>

GetModulePath ==
  /\ call.op = "_getModulePath" /\ ~call.done
  /\ call' = [call EXCEPT !.done = TRUE, !.ret = _getModulePath(call.e)]
  /\ UNCHANGED <<modules, conditionalModules, dbQueue, dbResult, pass, combine, source,
                 requests, scripts, listeners, jobs, draining, fetched, defines, polyfill>>

ResolvePath ==
  /\ call.op = "resolvePath" /\ ~call.done
  /\ call' = [call EXCEPT !.done = TRUE, !.ret = resolvePath(call.name, call.dep)]
  /\ UNCHANGED <<modules, conditionalModules, dbQueue, dbResult, pass, combine, source,
                 requests, scripts, listeners, jobs, draining, fetched, defines, polyfill>>

RegisterModule ==
  /\ call.op = "_registerModule" /\ ~call.done
  /\ call' = [call EXCEPT !.done = TRUE,
                          !.ret = _registerModuleValues(RegistryValues, call.deps, call.f)]
  /\ UNCHANGED <<modules, conditionalModules, dbQueue, dbResult, pass, combine, source,
                 requests, scripts, listeners, jobs, draining, fetched, defines, polyfill>>

CallNext == Build \/ GetModulePath \/ ResolvePath \/ RegisterModule

CallSpec == CallInit /\ [][CallNext]_vars

(***************************************************************************)
(* The Promise polyfill.  y = [ps, k, scheduled, log, ctx]: the promises   *)
(* (a: 0 pending, 1 fulfilled, 2 rejected; e: the subscribers), the asap   *)
(* queue k, whether the flush of the queue is scheduled, the callbacks     *)
(* invoked so far, and the call that is running.  A callback is "none"     *)
(* (no function), "returns" or "throws"; a subscriber is the child promise *)
(* that then made and the two callbacks.                                   *)
(***************************************************************************)
PENDING == 0
FULFILLED == 1
REJECTED == 2
\* late: whether the promise was made by then on a settled promise
NewPromise == [a |-> PENDING, e |-> <<>>, late |-> FALSE]
Subscriber(child, onF, onR) == [child |-> child, cb |-> <<onF, onR>>]

\* function e: the entry is queued; the flush is scheduled (P()) when the
\* queue was empty
asap(y, entry) ==
  [y EXCEPT !.k = Append(@, entry),
            !.scheduled = IF Len(y.k) = 0 THEN TRUE ELSE @]

\* function h
fulfill(y, t) ==
  IF y.ps[t].a # PENDING THEN y
  ELSE LET y1 == [y EXCEPT !.ps[t].a = FULFILLED]
       IN IF Len(y.ps[t].e) # 0 THEN asap(y1, [fn |-> "publish", p |-> t]) ELSE y1

\* function p
reject(y, t) ==
  IF y.ps[t].a # PENDING THEN y
  ELSE asap([y EXCEPT !.ps[t].a = REJECTED], [fn |-> "publishRejection", p |-> t])

\* function f, for a value that is no thenable
resolve(y, t) == fulfill(y, t)

\* function g
subscribe(y, t, child, onF, onR) ==
  LET y1 == [y EXCEPT !.ps[t].e = Append(@, Subscriber(child, onF, onR))]
  IN IF Len(y.ps[t].e) = 0 /\ y.ps[t].a # PENDING
     THEN asap(y1, [fn |-> "publish", p |-> t])
     ELSE y1

\* function _: the callback o of the promise settled as e is invoked, and
\* the child n settled from what it did
invokeCallback(y, e, n, o) ==
  LET y1 == IF o # "none"
            THEN [y EXCEPT !.log = Append(@, [child |-> n, settled |-> e, ctx |-> y.ctx])]
            ELSE y
  IN IF y1.ps[n].a # PENDING THEN y1
     ELSE IF o = "returns" THEN resolve(y1, n)
     ELSE IF o = "throws" THEN reject(y1, n)
     ELSE IF e = FULFILLED THEN fulfill(y1, n)
     ELSE reject(y1, n)

\* function v
RECURSIVE publishLoop(_, _, _)
publishLoop(y, t, i) ==
  IF i > Len(y.ps[t].e) THEN [y EXCEPT !.ps[t].e = <<>>]
  ELSE LET sub == y.ps[t].e[i]
       IN publishLoop(invokeCallback(y, y.ps[t].a, sub.child, sub.cb[y.ps[t].a]), t, i + 1)
publish(y, t) == IF Len(y.ps[t].e) # 0 THEN publishLoop(y, t, 1) ELSE y

\* function d (no onerror hook is set)
publishRejection(y, t) == publish(y, t)

\* function s: the queue is run to its end, entries added on the way too
RECURSIVE flush(_, _)
flush(y, e) ==
  IF e > Len(y.k) THEN [y EXCEPT !.k = <<>>, !.scheduled = FALSE]
  ELSE LET x == y.k[e]
       IN flush(IF x.fn = "publish" THEN publish(y, x.p)
                ELSE IF x.fn = "publishRejection" THEN publishRejection(y, x.p)
                ELSE invokeCallback(y, x.state, x.child, x.cb), e + 1)

\* variant: then on a settled promise invokes the callback at once
then_inline(y, t, onF, onR) ==
  LET o == y.ps[t].a
  IN IF (o = FULFILLED /\ onF = "none") \/ (o = REJECTED /\ onR = "none") THEN y
     ELSE LET r == Len(y.ps) + 1
              y1 == [y EXCEPT !.ps = Append(@, [NewPromise EXCEPT !.late = o # PENDING])]
          IN IF o # PENDING
             THEN invokeCallback(y1, o, r, <<onF, onR>>[o])
             ELSE subscribe(y1, t, r, onF, onR)

\* Promise.prototype.then
then(y, t, onF, onR) ==
  LET o == y.ps[t].a
  IN IF (o = FULFILLED /\ onF = "none") \/ (o = REJECTED /\ onR = "none") THEN y
     ELSE LET r == Len(y.ps) + 1
              y1 == [y EXCEPT !.ps = Append(@, [NewPromise EXCEPT !.late = o # PENDING])]
          IN IF o # PENDING
             THEN asap(y1, [fn |-> "callback", state |-> o, child |-> r, cb |-> <<onF, onR>>[o]])
             ELSE subscribe(y1, t, r, onF, onR)

(***************************************************************************)
(* Specification of the polyfill: code holds the resolve and reject        *)
(* functions of two promises it constructed, and calls them and then; the  *)
(* scheduled flush runs as a task of its own.                              *)
(***************************************************************************)
Roots == {1, 2}
Callbacks == {"none", "returns", "throws"}

PromiseInit ==
  /\ modules = EmptyParser.modules
  /\ conditionalModules = EmptyParser.conditionalModules
  /\ dbQueue = <<>>
  /\ dbResult = <<>>
  /\ pass = NoPass
  /\ combine = FALSE
  /\ source = NoSource
  /\ requests = [r \in ReqIds |-> NoRequest]
  /\ scripts = <<>>
  /\ listeners = <<>>
  /\ jobs = <<>>
  /\ draining = FALSE
  /\ fetched = [n \in Names |-> 0]
  /\ defines = <<>>
  /\ call = NoCall
  /\ polyfill = [NoPolyfill EXCEPT !.ps = <<NewPromise, NewPromise>>]

PromiseFrame ==
  UNCHANGED <<modules, conditionalModules, dbQueue, dbResult, pass, combine, source,
              requests, scripts, listeners, jobs, draining, fetched, defines, call>>

\* a call of then, to its return
Then(t, onF, onR) ==
  /\ t \in 1..Len(polyfill.ps)
  /\ Len(polyfill.ps) < MaxPromises
  /\ polyfill' = then([polyfill EXCEPT !.ctx = "then"], t, onF, onR)
  /\ PromiseFrame

\* a call of the resolve function of a constructed promise
Resolve(t) ==
  /\ polyfill' = resolve([polyfill EXCEPT !.ctx = "resolve"], t)
  /\ PromiseFrame

\* a call of the reject function of a constructed promise
Reject(t) ==
  /\ polyfill' = reject([polyfill EXCEPT !.ctx = "reject"], t)
  /\ PromiseFrame

\* the scheduled task: function s
Flush ==
  /\ polyfill.scheduled
  /\ polyfill' = flush([polyfill EXCEPT !.ctx = "flush"], 1)
  /\ PromiseFrame

PromiseNext ==
  \/ \E t \in 1..MaxPromises : \E onF, onR \in Callbacks : Then(t, onF, onR)
  \/ \E t \in Roots : Resolve(t)
  \/ \E t \in Roots : Reject(t)
  \/ Flush

PromiseSpec == PromiseInit /\ [][PromiseNext]_vars

(***************************************************************************)
(* Properties of one DependencyBuilder pass (DBSpec).                      *)
(***************************************************************************)
PassDone == pass.n > 0
PassReturned == PassDone /\ ~pass.thrown
PreDeps(m) == Range(pass.pre[m].dependencies) \ {EXPORTS}
Activated(b, S) ==
  /\ pass.pre[b].present /\ pass.pre[b].condition.has
  /\ pass.pre[b].condition.test /\ pass.pre[b].condition.trigger \in S

\* least set containing S, closed under dependencies and activated conditionals
RECURSIVE Expand(_)
Expand(S) ==
  LET T == S \cup UNION {PreDeps(m) : m \in S \cap Names}
             \cup {b \in Names : Activated(b, S)}
  IN IF T = S THEN S ELSE Expand(T)

\* names reachable from m through one or more dependency edges
RECURSIVE DepReach(_)
DepReach(S) ==
  LET T == S \cup UNION {PreDeps(m) : m \in S \cap Names}
  IN IF T = S THEN S ELSE DepReach(T)
OnCycle(m) == m \in Names /\ m \in DepReach(PreDeps(m))
CycleReachable == \E m \in Expand(Range(pass.req)) : OnCycle(m)
FlagsClear == \A n \in Names : ~modules[n].mark /\ ~modules[n].tmpMark /\ ~modules[n].conditionalMark
Pos(m) == IndexOf(pass.out, m)

\* C1: the list a pass returns is dependency-first: every dependency other
\* than "exports" of a module of the output stands at a smaller index.
C1_DependencyFirst ==
  PassReturned =>
    \A i \in 1..Len(pass.out) : \A d \in PreDeps(pass.out[i]) :
      \E j \in 1..(i - 1) : pass.out[j] = d

\* a pass returned a list where a conditional module was activated and some
\* module stands behind its dependency
C1_Witness ==
  /\ PassReturned
  /\ \E m \in Range(pass.out) : PreDeps(m) # {}
  /\ \E b \in Range(pass.out) : b \notin Range(pass.req) /\ Activated(b, Range(pass.out))

\* C5: a cycle reachable from the request makes the pass fail with the cycle
\* error naming a module on the cycle, and the flags are false afterwards.
C5_CycleError ==
  (PassDone /\ CycleReachable) =>
    /\ pass.thrown
    /\ pass.err.kind = "cycle"
    /\ OnCycle(pass.err.name)
    /\ FlagsClear

\* C6: after a pass, returned or thrown, the flags are false on every
\* descriptor, the builder's queue and result are empty, and no other
\* descriptor field, registry key or index entry has changed.
C6_PassLeavesNoTrace ==
  PassDone =>
    /\ FlagsClear
    /\ dbQueue = <<>> /\ dbResult = <<>>
    /\ modules = pass.pre
    /\ conditionalModules = pass.preCm

\* a pass failed on a cycle whose modules are not those requested alone
C6_Witness ==
  /\ PassDone /\ pass.thrown /\ pass.err.kind = "cycle"
  /\ Len(pass.req) = 2
  /\ \E m \in Names : OnCycle(m) /\ m \notin Range(pass.req)

\* C9: a module whose trigger is in the output and whose test is true is in
\* the output exactly once, with its dependencies, and before its trigger when
\* the trigger depends on it; a module whose test is false and that is neither
\* requested nor a dependency of an output module is not in the output.
C9_ConditionalActivation ==
  PassReturned =>
    \A b \in Names :
      /\ Activated(b, Range(pass.out)) =>
           /\ Count(pass.out, b) = 1
           /\ \A d \in PreDeps(b) : Count(pass.out, d) = 1
           /\ \A a \in Range(pass.out) :
                (pass.pre[b].condition.trigger = a /\ b \in PreDeps(a)) => Pos(b) < Pos(a)
      /\ ( /\ pass.pre[b].condition.has /\ ~pass.pre[b].condition.test
           /\ b \notin Range(pass.req)
           /\ \A m \in Range(pass.out) : b \notin PreDeps(m) )
         => b \notin Range(pass.out)

\* the trigger was requested alone, the conditional module has a dependency,
\* and the trigger does not depend on the conditional module
C9_Witness ==
  /\ PassReturned
  /\ Len(pass.req) = 1
  /\ \E b \in Names :
       /\ Activated(b, Range(pass.req))
       /\ b \notin Range(pass.req)
       /\ b \notin PreDeps(pass.req[1])
       /\ PreDeps(b) # {}
       /\ b \in Range(pass.out)

\* C10: the output holds no name twice and its names are exactly the least
\* set containing the request and closed under dependencies and activation.
C10_ExactClosure ==
  PassReturned =>
    /\ NoDup(pass.out)
    /\ Range(pass.out) = Expand(Range(pass.req))

\* a module is reached twice (requested and a dependency of two modules)
C10_Witness ==
  /\ PassReturned
  /\ Len(pass.out) = 3
  /\ \E m \in Names : Cardinality({x \in Names : pass.pre[x].present /\ m \in PreDeps(x)}) = 2

(***************************************************************************)
(* Properties of the Loader (LoaderSpec).                                  *)
(***************************************************************************)
Succeeded(r) == requests[r].st = "success"
Failed(r) == requests[r].st = "failure"

\* C2: onSuccess is invoked only when every module of the expanded list of
\* the request has an implementation.
C2_SuccessOnlyWhenImplemented ==
  \A r \in ReqIds : Succeeded(r) =>
    \A i \in 1..Len(requests[r].listImpl) : requests[r].listImpl[i] # 0

\* C4: no module name is handed to URLBuilder.build twice.
C4_AtMostOneFetch == \A n \in Names : fetched[n] <= 1

\* C7: onSuccess receives one argument per requested name, in request order:
\* the implementation the registry holds for it, undefined when the name is
\* not a registry key.
C7_ArgsInRequestOrder ==
  \A r \in ReqIds : Succeeded(r) =>
    /\ Len(requests[r].args) = Len(requests[r].names)
    /\ \A i \in 1..Len(requests[r].names) :
         LET n == requests[r].names[i]
             k == IndexOf(requests[r].list, n)
         IN requests[r].args[i] = IF k = 0 THEN 0 ELSE requests[r].listImpl[k]

Pending(r) == requests[r].st = "pending"
RemovedScripts(r) == {i \in 1..Len(scripts) : scripts[i].r = r /\ scripts[i].st = "removed"}
CarriedBy(n) == {i \in 1..Len(scripts) : n \in Range(scripts[i].mods)}

\* nothing is left to run: no job is queued and no script is in flight
Quiescent == jobs = <<>> /\ \A i \in 1..Len(scripts) : scripts[i].st # "loading"
PartlyImplementedAtWait(r) == 0 < requests[r].nNoImpl /\ requests[r].nNoImpl < requests[r].nWait

AllImplemented(r) ==
  \A k \in 1..Len(requests[r].list) : Implemented(modules, requests[r].list[k])

\* C3: every require call runs to completion or failure, also a request
\* whose expanded list is partly implemented when waiting starts: once every
\* fetch has loaded or errored, every job has run and every module of the
\* request's list is implemented, such a request has invoked onSuccess or
\* onFailure.
C3_EveryRequestCompletes ==
  Quiescent =>
    \A r \in ReqIds : (PartlyImplementedAtWait(r) /\ AllImplemented(r)) => ~Pending(r)

\* C8: when the resolution of a request throws or a script fetched for it
\* errors, onSuccess is not invoked for it, onFailure is invoked (it has been
\* once the job queue is empty) with the thrown error or a failed script
\* element, the failed element is out of the document and the modules it
\* carried are fetched by no script element created after it.
C8_FailureRouted ==
  \A r \in ReqIds :
    /\ (requests[r].thrown \/ RemovedScripts(r) # {}) =>
         /\ ~Succeeded(r) /\ requests[r].succ = 0
         /\ jobs = <<>> => (Failed(r) /\ requests[r].fail = 1)
    /\ (Failed(r) /\ requests[r].thrown) => requests[r].err = requests[r].resErr
    /\ (Failed(r) /\ ~requests[r].thrown) =>
         \E i \in RemovedScripts(r) : requests[r].err = ErrScript(i)
    /\ \A i \in RemovedScripts(r) : \A n \in Range(scripts[i].mods) :
         \A j \in CarriedBy(n) : j <= i

\* a request failed with the script element that errored, and a later request
\* names a module that element carried
C8_Witness ==
  /\ jobs = <<>>
  /\ \E r \in ReqIds : \E i \in RemovedScripts(r) :
       /\ Failed(r) /\ requests[r].err = ErrScript(i) /\ requests[r].fail = 1
       /\ \E q \in ReqIds : q > r /\ Range(requests[q].list) \cap Range(scripts[i].mods) # {}

\* a request for a module behind its dependency and an unregistered name
\* succeeded with every module implemented
C7_Witness ==
  \E r \in ReqIds :
    /\ Succeeded(r)
    /\ Len(requests[r].list) = 2 /\ Len(requests[r].names) = 2
    /\ requests[r].list # requests[r].names
    /\ \A i \in 1..2 : requests[r].args[i] # 0
    /\ \E q \in ReqIds : Succeeded(q) /\ C \in Range(requests[q].names)

(***************************************************************************)
(* Properties of Loader.define (DefineSpec).                               *)
(***************************************************************************)
\* the step makes a define call: the call is the last record of defines'
DefineStep == Len(defines') = Len(defines) + 1
NewDefine == defines'[Len(defines')]
\* the step invokes the factory of define call k
FactoryStep(k) ==
  /\ defines'[k].factory = 1
  /\ k <= Len(defines) => defines[k].factory = 0

\* C11: the factory of a declared module is invoked only when every
\* dependency other than "exports" has an implementation in the registry; a
\* define call that finds a dependency unimplemented invokes no factory and
\* leaves the registry as it is.
C11_FactoryAfterDependencies ==
  [][/\ \A k \in 1..Len(defines') :
          FactoryStep(k) => DepsImplemented(modules, defines'[k].d.deps)
     /\ (DefineStep /\ ~DepsImplemented(modules, NewDefine.d.deps)) =>
          (NewDefine.factory = 0 /\ modules' = modules)]_vars

RegJobs(js, d) == Count([i \in 1..Len(js) |-> js[i].k = "reg" /\ js[i].d = d], TRUE)

C13_DefinePromiseFulfilled ==
  jobs = <<>> =>
    \A k \in 1..Len(defines) :
      (defines[k].u = "false" /\ defines[k].factory = 1) => defines[k].settled = "fulfilled"

AbsentDeps(mods, deps) ==
  {deps[i] : i \in {j \in 1..Len(deps) : deps[j] # EXPORTS /\ ~Registered(mods, deps[j])}}

\* C14: a define call that lists a dependency other than "exports" that is
\* no registry key fails at the call, wherever that dependency stands in the
\* list: the promise is rejected with the error naming a dependency that is
\* not registered, the factory is not invoked, the registry is unchanged and
\* no listener is subscribed.
C14_AbsentDependencyRejected ==
  [][(DefineStep /\ AbsentDeps(modules, NewDefine.d.deps) # {}) =>
       /\ NewDefine.settled = "rejected"
       /\ NewDefine.err.kind = "dependency"
       /\ NewDefine.err.name \in AbsentDeps(modules, NewDefine.d.deps)
       /\ NewDefine.factory = 0
       /\ modules' = modules
       /\ listeners' = listeners]_vars

\* the define calls of the name n whose factory has been invoked, and the
\* registration events emitted for n
FactoryCalls(n) == {k \in 1..Len(defines) : defines[k].d.name = n /\ defines[k].factory = 1}
Emitted(n) ==
  SumOver([k \in 1..Len(defines) |-> IF defines[k].d.name = n THEN defines[k].emits ELSE 0],
          1..Len(defines))

\* C21: over any sequence of define calls, for every module name the factory
\* is invoked at most once, the implementation of the registry entry, once
\* set, is never unset again, and the registration event is emitted exactly
\* once when the module is registered (and never more than once).
C21_RegisteredOnce ==
  [][\A n \in Names :
       /\ Cardinality(FactoryCalls(n)') <= 1
       /\ Implemented(modules, n) => Implemented(modules', n)
       /\ Emitted(n)' = IF FactoryCalls(n)' = {} THEN 0 ELSE 1]_vars

(***************************************************************************)
(* Properties of the conditional index (CondDefineSpec).                   *)
(***************************************************************************)
\* C22: after the construction of the parser and any declarations, the list
\* the conditional index holds for a trigger holds no module name twice,
\* also when a conditional module of the configuration is declared again
\* with the same condition.
C22_ConditionalIndexNoDuplicates == \A t \in Names : NoDup(conditionalModules[t])

(***************************************************************************)
(* Properties of URLBuilder and PathResolver (CallSpec).                   *)
(***************************************************************************)
Returned(op) == call.op = op /\ call.done
SameBag(s, t) == \A x \in Range(s) \cup Range(t) : Count(s, x) = Count(t, x)
WithSlash(str) ==
  IF Len(str) > 0 /\ str[Len(str)] = "/" THEN str ELSE str \o <<"/">>

\* url + "?" + base + path1 + "&" + base + path2 ...
RECURSIVE CombinedFrom(_, _, _, _)
CombinedFrom(base, o, ks, k) ==
  IF k > Len(ks) THEN <<>>
  ELSE (IF k = 1 THEN <<>> ELSE <<"&">>) \o base \o _getModulePath(o[ks[k]])
         \o CombinedFrom(base, o, ks, k + 1)

\* the URLs the contract of build names, for the base path taken as base
BuildContract(base) ==
  LET r == call.r
      o == call.o
      full == SelectSeq(call.e, LAMBDA k : o[k].fullPath # <<>>)
      rest == SelectSeq(call.e, LAMBDA k : o[k].fullPath = <<>>)
      direct == [i \in 1..Len(full) |-> o[full[i]].fullPath]
  IN IF r.combine
     THEN /\ Len(call.ret.urls) = Len(full) + (IF Len(rest) > 0 THEN 1 ELSE 0)
          /\ SameBag(call.ret.urls,
                     IF Len(rest) > 0
                     THEN Append(direct, r.url \o <<"?">> \o CombinedFrom(base, o, rest, 1))
                     ELSE direct)
     ELSE /\ Len(call.ret.urls) = Len(call.e)
          /\ SameBag(call.ret.urls,
                     [i \in 1..Len(call.e) |->
                        IF o[call.e[i]].fullPath # <<>> THEN o[call.e[i]].fullPath
                        ELSE r.url \o base \o _getModulePath(o[call.e[i]])])

\* C15, as stated: with combine on build returns one URL for each module
\* with a fullPath and one combined URL url + "?" + basePath + path1 + "&" +
\* basePath + path2 ... of the other modules in input order (none when there
\* is no other module); with combine off one URL for each module, its
\* fullPath or url + basePath + path.
C15_BuildUrls_AsStated == Returned("build") => BuildContract(call.r.basePath)

\* C15, amended: the same with basePath followed by "/" when it does not end
\* with "/".
C15_BuildUrls == Returned("build") => BuildContract(WithSlash(call.r.basePath))

\* build was given two modules without fullPath and one with, combine on
C15_Witness ==
  /\ Returned("build") /\ call.r.combine
  /\ Len(call.e) = 3 /\ Len(call.ret.urls) = 2
  /\ Cardinality({i \in 1..3 : call.o[call.e[i]].fullPath = <<>>}) = 2
  /\ call.r.basePath = <<"b">>

EndsWith(str, t) == Len(str) >= Len(t) /\ SubSeq(str, Len(str) - Len(t) + 1, Len(str)) = t

\* C16: _getModulePath returns the explicit path when the descriptor has
\* one, else the name when the name ends with ".js", else the name with ".js"
\* appended, for names of every length.
C16_ModulePath ==
  Returned("_getModulePath") =>
    call.ret = IF call.e.path # <<>> THEN call.e.path
               ELSE IF EndsWith(call.e.name, JS) THEN call.e.name
               ELSE call.e.name \o JS

\* the directory segments and the last segment of the dependency of the call
Dirs == SubSeq(call.dep, 1, Len(call.dep) - 1)
LastSeg == call.dep[Len(call.dep)]
\* the base accumulated after each directory segment, from the name without
\* its last segment
Acc ==
  LET f[i \in 0..Len(Dirs)] ==
        IF i = 0 THEN SubSeq(call.name, 1, Len(call.name) - 1)
        ELSE IF Dirs[i] = "." THEN f[i - 1]
        ELSE IF Dirs[i] = ".."
             THEN IF f[i - 1] = <<>> THEN <<>> ELSE SubSeq(f[i - 1], 1, Len(f[i - 1]) - 1)
        ELSE Append(f[i - 1], Dirs[i])
  IN f
\* the ".." segments that find the accumulated base empty
Exceeding == {i \in 1..Len(Dirs) : Dirs[i] = ".." /\ Acc[i - 1] = <<>>}
FirstExceeding == CHOOSE i \in Exceeding : \A j \in Exceeding : i <= j

\* C17, as stated: when a ".." finds the base empty the result is the
\* segments that remain after it, used verbatim; so "../../x" against "a/b"
\* gives "x".
C17_PopBeyondBase_AsStated ==
  (Returned("resolvePath") /\ call.dep # EXPORTS /\ Exceeding # {}) =>
    call.ret = SubSeq(Dirs, FirstExceeding + 1, Len(Dirs)) \o <<LastSeg>>

\* C17, amended: when a ".." finds the base empty the result is that ".."
\* and the segments after it, used verbatim; so "../../x" against "a/b"
\* gives "../x".
C17_PopBeyondBase ==
  (Returned("resolvePath") /\ call.dep # EXPORTS /\ Exceeding # {}) =>
    call.ret = SubSeq(Dirs, FirstExceeding, Len(Dirs)) \o <<LastSeg>>

\* "../../x" was resolved against "a/b"
C17_Witness ==
  /\ Returned("resolvePath")
  /\ call.name = <<"a", "b">> /\ call.dep = <<"..", "..", "x">>
  /\ call.ret = <<"..", "x">>

\* C18: when no ".." finds the base empty, the result is the name without
\* its last segment, changed by the directory segments of the dependency
\* from left to right ("." ignored, ".." removes the last segment, any other
\* segment appended), followed by the last segment of the dependency; the
\* dependency "exports" is returned unchanged.
C18_ResolvePath ==
  Returned("resolvePath") =>
    /\ call.dep = EXPORTS => call.ret = EXPORTS
    /\ (call.dep # EXPORTS /\ Exceeding = {}) =>
         call.ret = Append(Acc[Len(Dirs)], LastSeg)

\* "../x" was resolved against "a/b" and gave "x", and no ".." found the
\* base empty
C18_Witness ==
  /\ Returned("resolvePath")
  /\ call.name = <<"a", "b">> /\ call.dep = <<"..", "x">>
  /\ Exceeding = {}
  /\ call.ret = <<"x">>

\* C27: resolving a resolved dependency again against the same name gives
\* the same id, so the second resolution that addModule applies to the
\* descriptor that define resolved leaves its dependencies as they are.
C27_ResolvePathIdempotent ==
  Returned("resolvePath") => resolvePath(call.name, call.ret) = call.ret

ExportsAt(deps) == {i \in 1..Len(deps) : deps[i] = EXPORTS}

\* C24: _registerModule applies the factory to one argument per dependency
\* in declared order: the implementation the registry holds for the
\* dependency, and in each "exports" position an empty object of its own;
\* the implementation is the value the factory returned when that value is
\* truthy, whatever the factory wrote to the placeholders, and otherwise a
\* placeholder passed in an "exports" position, as the factory left it.
C24_FactoryArgumentsAndResult ==
  Returned("_registerModule") =>
    LET deps == call.deps
        args == call.ret.args
    IN /\ Len(args) = Len(deps)
       /\ \A i \in 1..Len(deps) : deps[i] # EXPORTS => args[i] = RegistryValues[deps[i]]
       /\ \A i \in ExportsAt(deps) :
            /\ args[i].kind = "exports" /\ ~args[i].written
            /\ \A j \in 1..Len(deps) : j # i => args[j] # args[i]
       /\ Truthy(call.f.ret) => call.ret.implementation = call.f.ret
       /\ (~Truthy(call.f.ret) /\ ExportsAt(deps) # {}) =>
            \E i \in ExportsAt(deps) :
              call.ret.implementation = [args[i] EXCEPT !.written = i \in call.f.writes]

\* a factory that got a dependency and a placeholder wrote to the
\* placeholder and returned a value: the value is the implementation
C24_Witness ==
  /\ Returned("_registerModule")
  /\ call.deps = <<B, EXPORTS>>
  /\ call.f.writes = {2} /\ call.f.ret = Returned_value
  /\ call.ret.implementation = Returned_value

(***************************************************************************)
(* Properties of requests that name unregistered modules (LoaderSpec).     *)
(***************************************************************************)
RequireStep(r) == requests[r].st = "idle" /\ requests'[r].st = "pending"
Unregistered(mods, names) == {n \in Range(names) : ~Registered(mods, n)}

\* C19: requested names that are no registry keys are dropped before the
\* resolution: the request gets the list, and the failure, that the
\* resolution of its registered names alone gives; such a name is never
\* handed to URLBuilder.build nor carried by a script element, and a request
\* of unregistered names only never reaches onFailure.
C19_UnregisteredNamesDropped ==
  [][\A r \in ReqIds :
       /\ RequireStep(r) =>
            LET names == requests'[r].names
                reg == SelectSeq(names, LAMBDA n : Registered(modules, n))
                u == resolveDependencies(modules, conditionalModules, dbResult, reg)
            IN /\ requests'[r].list = u.out
               /\ requests'[r].thrown = u.thrown
               /\ requests'[r].resErr = u.err
       /\ \A n \in Unregistered(modules', requests'[r].names) :
            /\ fetched'[n] = 0
            /\ \A i \in 1..Len(scripts') : n \notin Range(scripts'[i].mods)
       /\ Unregistered(modules', requests'[r].names) = Range(requests'[r].names) =>
            requests'[r].fail = 0]_vars

\* a request naming an unregistered module and a registered one succeeded
\* after a fetch
C19_Witness ==
  \E r \in ReqIds :
    /\ Succeeded(r) /\ requests[r].viaScripts
    /\ Unregistered(modules, requests[r].names) # {}
    /\ Len(requests[r].list) >= 1 /\ Len(requests[r].names) = 2

(***************************************************************************)
(* Properties of requests whose resolution fails (LoaderSpec).             *)
(***************************************************************************)
DepsOf(mods, m) == IF Registered(mods, m) THEN Range(mods[m].dependencies) \ {EXPORTS} ELSE {}
RECURSIVE Closure(_, _)
Closure(mods, S) ==
  LET T == S \cup UNION {DepsOf(mods, m) : m \in S}
  IN IF T = S THEN S ELSE Closure(mods, T)
\* the registered names of the request reach a module on a cycle, or a
\* dependency that is no registry key
StructuralError(mods, names) ==
  LET R == Closure(mods, {n \in Range(names) : Registered(mods, n)})
  IN \/ \E m \in R : ~Registered(mods, m)
     \/ \E m \in R : m \in Closure(mods, DepsOf(mods, m))
ScriptsOf(ss, r) == {i \in 1..Len(ss) : ss[i].r = r}
FailJobs(js, r) == Count([i \in 1..Len(js) |-> js[i].k = "fail" /\ js[i].r = r], TRUE)

\* C23: a request whose registered names reach a cycle or a dependency that
\* is no registry key fails as a whole: the require call throws nothing
\* away half-done (no load flag is set, URLBuilder.build is not called, no
\* script element is created, the failure is on its way to onFailure), and
\* afterwards the request has no script element, never had build called for
\* it, never reaches onSuccess, and has had onFailure invoked once when the
\* job queue is empty.
C23_StructuralErrorsFailWhole ==
  [][\A r \in ReqIds :
       /\ (RequireStep(r) /\ StructuralError(modules, requests'[r].names)) =>
            /\ requests'[r].thrown
            /\ \A n \in Names : modules'[n].load = modules[n].load
            /\ fetched' = fetched
            /\ scripts' = scripts
            /\ FailJobs(jobs', r) = 1
       /\ (requests'[r].st # "idle" /\ StructuralError(modules', requests'[r].names)) =>
            /\ ScriptsOf(scripts', r) = {}
            /\ ~requests'[r].viaScripts
            /\ requests'[r].succ = 0
            /\ jobs' = <<>> => (requests'[r].st = "failure" /\ requests'[r].fail = 1)]_vars

\* a request failed on a dependency that is no registry key, onFailure was
\* invoked once, and another request of the same registry fetched a script
C23_Witness ==
  /\ jobs = <<>>
  /\ \E r \in ReqIds :
       /\ StructuralError(modules, requests[r].names)
       /\ Failed(r) /\ requests[r].fail = 1 /\ requests[r].resErr.kind = "TypeError"
       /\ \E q \in ReqIds : q # r /\ requests[q].viaScripts

(***************************************************************************)
(* Properties of the registration-event listeners (LoaderSpec).            *)
(***************************************************************************)
\* the listeners subscribed for the waiter i of the request r, and the jobs
\* that carry the fulfilment of that waiter
ReqListeners(r, i) == {k \in 1..Len(listeners) : listeners[k].k = "req" /\ listeners[k].r = r /\ listeners[k].i = i}
WaiterJobs(r, i) == {k \in 1..Len(jobs) : jobs[k].k = "welem" /\ jobs[k].r = r /\ jobs[k].i = i}
Waiters(r) == 1..requests[r].nNoImpl
\* the listeners and registration jobs of the deferred declarations of n
DefListeners(n) == {k \in 1..Len(listeners) : listeners[k].k = "def" /\ listeners[k].d.name = n}
DefJobs(n) == {k \in 1..Len(jobs) : jobs[k].k = "reg" /\ jobs[k].d.name = n}
LoadedScripts(n) == {i \in 1..Len(scripts) : scripts[i].st = "loaded" /\ n \in Range(scripts[i].mods)}

\* C25: the listener of a waiter leaves the emitter in the step that
\* fulfils the waiter, and a waiter is fulfilled at most once: every
\* listener of the list belongs to a waiter that is still pending (it is
\* subscribed once and no fulfilment of its waiter is queued), every waiter
\* of a request is either subscribed or fulfilled once, and the listeners
\* and queued registrations of the deferred declarations of a module are no
\* more than the declarations made.
C25_ListenersOfPendingWaitersOnly ==
  /\ \A k \in 1..Len(listeners) :
       listeners[k].k = "req" =>
         /\ listeners[k].i \in Waiters(listeners[k].r)
         /\ Cardinality(ReqListeners(listeners[k].r, listeners[k].i)) = 1
         /\ WaiterJobs(listeners[k].r, listeners[k].i) = {}
  /\ \A r \in ReqIds :
       /\ \A i \in Waiters(r) : Cardinality(WaiterJobs(r, i)) <= 1
       /\ requests[r].waitDone
            + SumOver([i \in Waiters(r) |->
                         Cardinality(WaiterJobs(r, i)) + Cardinality(ReqListeners(r, i))],
                      Waiters(r))
            = requests[r].nNoImpl
  /\ \A n \in Names :
       Cardinality(DefListeners(n)) + Cardinality(DefJobs(n)) <= Cardinality(LoadedScripts(n))

\* the waiter of one request was fulfilled and its listener is gone, while
\* the listener of another request is still subscribed
C25_Witness ==
  \E r, q \in ReqIds :
    /\ r # q
    /\ requests[r].nNoImpl >= 1 /\ requests[r].waitDone = requests[r].nNoImpl
    /\ \A i \in Waiters(r) : ReqListeners(r, i) = {}
    /\ \E i \in Waiters(q) : ReqListeners(q, i) # {}

(***************************************************************************)
(* Properties of the Promise polyfill (PromiseSpec).                       *)
(***************************************************************************)
\* C26: a callback given to then, on a pending or on a settled promise, is
\* invoked neither inside that call of then nor inside the call of resolve
\* or reject that settles the promise: every callback invocation happens
\* inside the flush of the asap queue, and while entries are queued and not
\* yet flushed the flush is scheduled.
C26_CallbacksOnlyInFlush ==
  /\ \A i \in 1..Len(polyfill.log) : polyfill.log[i].ctx = "flush"
  /\ Len(polyfill.k) > 0 => polyfill.scheduled

\* callbacks of a promise that was pending at then and of a promise that
\* was settled at then have been invoked
C26_Witness ==
  \E i, j \in 1..Len(polyfill.log) :
    /\ ~polyfill.ps[polyfill.log[i].child].late
    /\ polyfill.ps[polyfill.log[j].child].late
    /\ polyfill.log[i].settled = FULFILLED /\ polyfill.log[j].settled = REJECTED

(***************************************************************************)
(* Properties of the callbacks of require (LoaderSpec).                    *)
(***************************************************************************)
\* C28: for each require call at most one of onSuccess and onFailure is
\* invoked, and it is invoked at most once, whatever the order of script
\* loads, script errors and registrations.
C28_OneCallbackOnce ==
  \A r \in ReqIds : requests[r].succ + requests[r].fail <= 1

\* both scripts fetched for a request errored and onFailure was invoked once
C28_Witness ==
  /\ jobs = <<>>
  /\ \E r \in ReqIds :
       /\ Cardinality(RemovedScripts(r)) = 2
       /\ requests[r].fail = 1 /\ requests[r].succ = 0

(***************************************************************************)
(* Properties of the load flag (LoaderSpec).                               *)
(***************************************************************************)
\* the step runs a declaration of n that may register it: the code of a
\* script that carries n runs, or the deferred registration of n runs; the
\* registration puts the descriptor that define made in the place of the
\* descriptor of the registry
DeclaredInStep(n) ==
  \/ Runs("reg") /\ Head1.d.name = n /\ requests' = requests
  \/ \E i \in 1..Len(scripts) :
       /\ scripts[i].st = "loading" /\ scripts'[i].st = "loaded"
       /\ n \in Range(scripts[i].mods)
FailedFetches(n) == {i \in 1..Len(scripts) : scripts[i].st = "removed" /\ n \in Range(scripts[i].mods)}

\* C29: no operation clears the load flag of a descriptor: in every step
\* that does not put a declared descriptor in its place (a require call with
\* its resolution pass and cleanup, a script error, a script load for the
\* modules the script does not carry, every promise job but a registration)
\* a registry entry with load = true keeps it; after the fetch of a module
\* has failed its descriptor has load = true for good, and no script element
\* is created for the module afterwards.
C29_LoadFlagKept ==
  [][\A n \in Names :
       /\ (modules[n].load /\ ~DeclaredInStep(n)) => modules'[n].load
       /\ FailedFetches(n)' # {} =>
            /\ modules'[n].load
            /\ \A i \in FailedFetches(n)' : \A j \in 1..Len(scripts') :
                 n \in Range(scripts'[j].mods) => j <= i]_vars

\* the fetch of a module failed, and a request that lists the module went on
\* to wait for it without a fetch: the module was handed to build once
C29_Witness ==
  /\ jobs = <<>>
  /\ \E n \in Names : \E q \in ReqIds :
       /\ FailedFetches(n) # {} /\ modules[n].load /\ fetched[n] = 1
       /\ n \in Range(requests[q].list)
       /\ ~requests[q].viaScripts /\ requests[q].nWait >= 1

(***************************************************************************)
(* Properties of repeated calls of one dependency builder (RepeatSpec).    *)
(***************************************************************************)
\* C20: a resolveDependencies call with the list of the call before, on the
\* same builder and registry, has the outcome of the call before: the same
\* ordered list, or the same error; also when that call, or an earlier one,
\* threw.
C20_ResolutionDeterministic ==
  [][(pass.n >= 1 /\ pass'.n = pass.n + 1 /\ pass'.again) =>
       /\ pass'.names = pass.names
       /\ pass'.out = pass.out
       /\ pass'.thrown = pass.thrown
       /\ pass'.err = pass.err]_vars

\* a list of two or more modules was returned twice after an earlier call
\* failed on a cycle
C20_Witness ==
  /\ pass.n = MaxPasses /\ pass.again /\ pass.cycleBefore
  /\ ~pass.thrown /\ Len(pass.out) >= 2

====
